---- MODULE Spec2Model ----
(***************************************************************************)
(* bible-podcaster: the pipeline driver (pipeline/base.py), the concrete   *)
(* stages (text_processor, audio_generator, image_generator,               *)
(* video_creator) and run_pipeline (main.py) as a state machine.           *)
(*                                                                         *)
(* Two specifications:                                                     *)
(*   SpecDriver  the abstract Pipeline class: add_stage and the loop of    *)
(*               Pipeline.run, one stage call per step;                    *)
(*   Spec        one call of a concrete stage, or of run_pipeline, on a    *)
(*               fresh filesystem. Every call appends to `log` what it     *)
(*               asked of the outside world (language model, speech        *)
(*               service, audio/video libraries, filesystem), in program   *)
(*               order, a failed request being followed by "<name>:raise". *)
(* The filesystem itself is taken to be reliable (mkdir and plain writes   *)
(* succeed); every library or service call may succeed or raise.           *)
(***************************************************************************)
EXTENDS Integers, Sequences, FiniteSets, TLC

\* ---------------------------------------------------------------- bounds
MaxStages == 3
MaxItem == 2
ItemMod == 5
MaxClock == 2
MaxRate == 2
MaxTopicLen == 34
MaxAlpha == 10
MaxMarks == 1
MaxSilentSec == 2

\* ------------------------------------------------------ program constants
TopicMaxLen == 32
DefaultSilentSec == 5
\* durations of the video stage, in tenths of a second: 5.0 and 1.0
DefaultDurationDs == 50
MinDurationDs == 10

VARIABLES
  stages,     \* Pipeline.stages: the list add_stage appends to
  run_pc,     \* Pipeline.run: "idle", "running", "returned", "raised"
  run_arg,    \* the item Pipeline.run was called with
  run_item,   \* the local `item` of Pipeline.run
  run_i,      \* how many stages the loop of Pipeline.run has taken
  calls,      \* every stage.run call of the current run: [stage, arg]
  settings,   \* config.settings as read by the stages' constructors
  fs,         \* the files on disk: path -> data
  dirs,       \* the directories created
  log,        \* requests to the outside world, in program order
  op,         \* the entry point that was called, "none" before
  arg,        \* its argument
  arg_out,    \* its argument as the call left it
  raised,     \* the error it raised, "none" if it returned
  ret,        \* what it returned: <<>> (nothing / None) or <<value>>
  invoked     \* the stage calls it made, in order: [stage, arg, arg_out, raised, ret]

vars == <<stages, run_pc, run_arg, run_item, run_i, calls,
          settings, fs, dirs, log, op, arg, arg_out, raised, ret, invoked>>
drvVars == <<stages, run_pc, run_arg, run_item, run_i, calls>>
wldVars == <<settings, fs, dirs, log, op, arg, arg_out, raised, ret, invoked>>

\* Optional values: None is <<>>, a present value x is <<x>>.
None == <<>>
Some(x) == <<x>>
IsSome(o) == o # <<>>
Val(o) == o[1]

Has(l, ev) == \E k \in 1..Len(l) : l[k] = ev
Count(l, ev) == Cardinality({k \in 1..Len(l) : l[k] = ev})
\* the position of the first ev in l, 0 when there is none
Pos(l, ev) == IF Has(l, ev) THEN CHOOSE k \in 1..Len(l) : l[k] = ev /\ \A j \in 1..(k-1) : l[j] # ev ELSE 0

\* ================================================================ driver
\* A stage is any PipelineStage: run(item) returns an item or raises.
StageKinds == {"succ", "twice", "raise"}
Items == 0..MaxItem

StageRun(kind, x) ==
  CASE kind = "succ"  -> [raised |-> FALSE, value |-> (x + 1) % ItemMod]
    [] kind = "twice" -> [raised |-> FALSE, value |-> (2 * x) % ItemMod]
    [] OTHER          -> [raised |-> TRUE, value |-> x]

InitDriverVars ==
  /\ stages = <<>>
  /\ run_pc = "idle"
  /\ run_arg = 0
  /\ run_item = 0
  /\ run_i = 0
  /\ calls = <<>>

\* Pipeline.add_stage
add_stage(stage) ==
  /\ run_pc = "idle"
  /\ Len(stages) < MaxStages
  /\ stages' = Append(stages, stage)
  /\ UNCHANGED <<run_pc, run_arg, run_item, run_i, calls>>
  /\ UNCHANGED wldVars

\* Pipeline.run is called with item
PipelineRunCall(item) ==
  /\ run_pc \in {"idle", "returned", "raised"}
  /\ run_pc' = "running"
  /\ run_arg' = item
  /\ run_item' = item
  /\ run_i' = 0
  /\ calls' = <<>>
  /\ UNCHANGED stages
  /\ UNCHANGED wldVars

\* variant: the loop catches a stage's error and goes on to the next stage
PipelineRunStageMutSkipRaise ==
  /\ run_pc = "running"
  /\ run_i < Len(stages)
  /\ LET r == StageRun(stages[run_i + 1], run_item) IN
       /\ calls' = Append(calls, [stage |-> run_i + 1, arg |-> run_item])
       /\ run_i' = run_i + 1
       /\ run_item' = r.value
       /\ run_pc' = "running"
  /\ UNCHANGED <<stages, run_arg>>
  /\ UNCHANGED wldVars

\* variant: every stage is given the initial item, not its predecessor's value
PipelineRunStageMutStaleArg ==
  /\ run_pc = "running"
  /\ run_i < Len(stages)
  /\ LET r == StageRun(stages[run_i + 1], run_arg) IN
       /\ calls' = Append(calls, [stage |-> run_i + 1, arg |-> run_arg])
       /\ run_i' = run_i + 1
       /\ run_item' = IF r.raised THEN run_item ELSE r.value
       /\ run_pc' = IF r.raised THEN "raised" ELSE "running"
  /\ UNCHANGED <<stages, run_arg>>
  /\ UNCHANGED wldVars

\* one iteration of `for stage in self.stages: item = stage.run(item)`
PipelineRunStage ==
  /\ run_pc = "running"
  /\ run_i < Len(stages)
  /\ LET r == StageRun(stages[run_i + 1], run_item) IN
       /\ calls' = Append(calls, [stage |-> run_i + 1, arg |-> run_item])
       /\ run_i' = run_i + 1
       /\ run_item' = IF r.raised THEN run_item ELSE r.value
       /\ run_pc' = IF r.raised THEN "raised" ELSE "running"
  /\ UNCHANGED <<stages, run_arg>>
  /\ UNCHANGED wldVars

\* `return item` once the loop is exhausted
PipelineRunReturn ==
  /\ run_pc = "running"
  /\ run_i = Len(stages)
  /\ run_pc' = "returned"
  /\ UNCHANGED <<stages, run_arg, run_item, run_i, calls>>
  /\ UNCHANGED wldVars


\* ====================================================== the outside world
\* A world is what a call can change: [fs, dirs, log].
EmptyFs == [p \in {} |-> None]
Emit(w, ev) == [w EXCEPT !.log = Append(@, ev)]
Mkdir(w, d) == [w EXCEPT !.dirs = @ \cup {d}]
WriteFile(w, p, data) ==
  [w EXCEPT !.fs = [q \in (DOMAIN w.fs) \cup {p} |-> IF q = p THEN data ELSE w.fs[q]]]
Exists(f, p) == p \in DOMAIN f

\* pathlib: dir / "stem.ext", Path.with_suffix, Path.parent
PathOf(d, stem, ext) == [dir |-> d, stem |-> stem, ext |-> ext]
WithSuffix(p, ext) == [p EXCEPT !.ext = ext]
Parent(p) == p.dir

\* The result of a call: the world after it, the error raised ("none" if it
\* returned), the value returned (None if it raised) and the argument item
\* as the call left it.
Returned(w, value, item) == [w |-> w, raised |-> "none", ret |-> Some(value), item |-> item]
Raised(w, err, item) == [w |-> w, raised |-> err, ret |-> None, item |-> item]

\* ------------------------------------------------------------- settings
\* elevenlabs_api_key: "" stands for a credential that is None or empty.
ApiKeys == {"", "sk"}
AudioFormats == {"mp3", "wav"}
SampleRates == 1..MaxRate
Settings ==
  [elevenlabs_api_key : ApiKeys, audio_format : AudioFormats,
   audio_sample_rate : SampleRates, image_format : {"png"}, video_format : {"mp4"}]

\* ------------------------------------------------------------ TextItem
\* content is a text, a sequence of characters by class: "L" a letter
\* outside U+0400..U+04FF, "C" a letter inside it, "M" a non-letter inside
\* it (U+0482, combining marks), "D" any other non-letter.
Contents == { <<"L", "L", "D">>, <<"C", "L", "L">>, <<"C", "C", "M">> }
\* n times the character c
RECURSIVE Rep(_, _)
Rep(c, n) == IF n = 0 THEN <<>> ELSE <<c>> \o Rep(c, n - 1)

\* A topic is a string over letters and spaces: short ones, and ones around
\* the length the folder name keeps, without spaces and with two of them.
Topics ==
  { <<"a">>, <<"a", " ", "b">>, <<" ", "b", "a", " ">> } \cup
  { Rep("a", n) : n \in (TopicMaxLen - 1)..MaxTopicLen } \cup
  { <<"a", " ">> \o Rep("b", n - 3) \o <<" ">> : n \in (TopicMaxLen + 1)..(MaxTopicLen + 3) }
\* ContextEvaluation: completeness_score, a float, in tenths, on both sides
\* of 0.5 and of 0.8; thought_completeness, a str
Scores == {4, 5, 7, 8}
Labels == {"complete", "partial", "incomplete"}
ContextEvaluations == [completeness_score : Scores, thought_completeness : Labels]
\* what the language model may return as a ContextAnalysisResult: every
\* topic with one evaluation, and one topic with every evaluation
AnalysisResults ==
  [topic : Topics, summary : {"summary"},
   context_evaluation : {[completeness_score |-> 8, thought_completeness |-> "complete"]}]
  \cup
  [topic : {<<"a">>}, summary : {"summary"}, context_evaluation : ContextEvaluations]

\* TextItem(content=...): no analysis result and no output directory.
\* output_dir = None stands for an item without the attribute or with None
\* in it: both stop a stage at its first line.
NewTextItem(content) == [content |-> content, context_analysis |-> None, output_dir |-> None]

\* ====================================== text_processor/context_analyzer.py
\* (text_processor/__init__.py holds an earlier analyzer with the same call,
\* the same None check and the same folder and files; neither assigns
\* output_dir.)
CountIn(text, classes) == Cardinality({k \in 1..Len(text) : text[k] \in classes})

\* _detect_language answering "Russian" from a ratio of 0.3 on
detect_languageMutAtLeast(text) ==
  LET cyrillic_count == CountIn(text, {"C", "M"})
      total_chars == CountIn(text, {"L", "C"})
  IN IF total_chars = 0 THEN "English"
     ELSE IF 10 * cyrillic_count >= 3 * total_chars THEN "Russian" ELSE "English"

\* BiblicalContextAnalyzer._detect_language: cyrillic_count / total_chars > 0.3
detect_language(text) ==
  LET cyrillic_count == CountIn(text, {"C", "M"})
      total_chars == CountIn(text, {"L", "C"})
  IN IF total_chars = 0 THEN "English"
     ELSE IF 10 * cyrillic_count > 3 * total_chars THEN "Russian" ELSE "English"

\* str.replace(' ', '')
RECURSIVE RemoveSpaces(_)
RemoveSpaces(s) ==
  IF s = <<>> THEN <<>>
  ELSE IF Head(s) = " " THEN RemoveSpaces(Tail(s))
  ELSE <<Head(s)>> \o RemoveSpaces(Tail(s))

\* s[:n]
Take(s, n) == SubSeq(s, 1, IF Len(s) < n THEN Len(s) ELSE n)

\* the folder name with the topic cut to length but its spaces kept
topic_folderMutKeepsSpaces(now, topic) == [root |-> "output", ts |-> now, topic |-> Take(topic, TopicMaxLen)]

\* f"{today_time}_{result.topic.replace(' ', '')[:32]}" under self.output_dir
topic_folder(now, topic) == [root |-> "output", ts |-> now, topic |-> Take(RemoveSpaces(topic), TopicMaxLen)]

Digits == <<"0", "1", "2", "3", "4", "5", "6", "7", "8", "9">>
\* now.strftime("%Y%m%d_%H%M"), the clock reading now counted in minutes
strftime(now) ==
  <<"2", "0", "2", "5", "0", "1", "0", "1", "_", "0", "0">>
    \o << Digits[((now \div 10) % 6) + 1], Digits[(now % 10) + 1] >>
\* the name of the folder, as the string the f-string builds
FolderName(d) == strftime(d.ts) \o <<"_">> \o d.topic

\* result.model_dump_json(indent=2)
model_dump_json(result) ==
  [kind |-> "json", topic |-> result.topic, summary |-> result.summary,
   context_evaluation |-> result.context_evaluation]
\* f.write(item.content)
TextFile(content) == [kind |-> "text", text |-> content]

\* what the language-model call does: e.llm is "raise", "null" or "ok"
\* (then e.result is the parsed result); e.now is datetime.now()
LLMOutcomes == {"raise", "null", "ok"}
\* A result and a clock reading are drawn only when the call gives a result.
AnalyzerEnvs ==
  { e \in [llm : LLMOutcomes, result : AnalysisResults, now : 1..MaxClock] :
      e.llm # "ok" => (e.now = 1 /\ e.result.topic = <<"a">>
                       /\ e.result.context_evaluation.thought_completeness = "complete"
                       /\ e.result.context_evaluation.completeness_score = 8) }

\* variant: the analyzer also records the folder as the item's output_dir
AnalyzerPersistMutSetsDir(w, item, result, now) ==
  LET folder_path == topic_folder(now, result.topic)
      w1 == Emit(Mkdir(w, folder_path), "mkdir:folder")
      w2 == Emit(WriteFile(w1, PathOf(folder_path, "input", "txt"), TextFile(item.content)), "write:input.txt")
      w3 == Emit(WriteFile(w2, PathOf(folder_path, "context_analysis", "json"), model_dump_json(result)),
                 "write:context_analysis.json")
      item1 == [item EXCEPT !.context_analysis = Some(result), !.output_dir = Some(folder_path)]
  IN Returned(Emit(w3, "attach:context_analysis"), item1, item1)

\* variant: the result is attached as soon as the folder exists, before
\* the files are written
AnalyzerPersistMutAttachFirst(w, item, result, now) ==
  LET folder_path == topic_folder(now, result.topic)
      item1 == [item EXCEPT !.context_analysis = Some(result)]
      w1 == Emit(Emit(Mkdir(w, folder_path), "mkdir:folder"), "attach:context_analysis")
      w2 == Emit(WriteFile(w1, PathOf(folder_path, "input", "txt"), TextFile(item.content)), "write:input.txt")
      w3 == Emit(WriteFile(w2, PathOf(folder_path, "context_analysis", "json"), model_dump_json(result)),
                 "write:context_analysis.json")
  IN Returned(w3, item1, item1)

\* lines 79-97 of BiblicalContextAnalyzer.run: the folder is created, the two
\* files are written, the result is attached; output_dir is not assigned
AnalyzerPersist(w, item, result, now) ==
  LET folder_path == topic_folder(now, result.topic)
      w1 == Emit(Mkdir(w, folder_path), "mkdir:folder")
      w2 == Emit(WriteFile(w1, PathOf(folder_path, "input", "txt"), TextFile(item.content)), "write:input.txt")
      w3 == Emit(WriteFile(w2, PathOf(folder_path, "context_analysis", "json"), model_dump_json(result)),
                 "write:context_analysis.json")
      item1 == [item EXCEPT !.context_analysis = Some(result)]
  IN Returned(Emit(w3, "attach:context_analysis"), item1, item1)

\* variant: a failed call is logged and a substitute result is used
AnalyzerRunMutFallback(w, item, e) ==
  LET lang == detect_language(item.content)
      w1 == Emit(w, IF lang = "Russian" THEN "prompt:Russian" ELSE "prompt:English")
      w2 == Emit(w1, "responses.parse")
  IN IF e.llm = "raise"
     THEN AnalyzerPersist(Emit(Emit(w2, "responses.parse:raise"), "logger.error:openai"), item, e.result, e.now)
     ELSE IF e.llm = "null"
     THEN AnalyzerPersist(Emit(Emit(Emit(w2, "output_parsed:None"), "logger.error:no_result"),
                               "logger.error:openai"), item, e.result, e.now)
     ELSE AnalyzerPersist(w2, item, e.result, e.now)

\* BiblicalContextAnalyzer.run sending the request a second time when the
\* first one raised
AnalyzerRunMutRetry(w, item, e) ==
  LET lang == detect_language(item.content)
      w1 == Emit(w, IF lang = "Russian" THEN "prompt:Russian" ELSE "prompt:English")
      w2 == Emit(w1, "responses.parse")
      w3 == Emit(Emit(w2, "responses.parse:raise"), "responses.parse")
  IN IF e.llm = "raise"
     THEN Raised(Emit(Emit(w3, "responses.parse:raise"), "logger.error:openai"), "APIError", item)
     ELSE IF e.llm = "null"
     THEN Raised(Emit(Emit(Emit(w2, "output_parsed:None"), "logger.error:no_result"), "logger.error:openai"),
                 "ValueError", item)
     ELSE AnalyzerPersist(w2, item, e.result, e.now)

\* BiblicalContextAnalyzer.run
AnalyzerRun(w, item, e) ==
  LET lang == detect_language(item.content)
      w1 == Emit(w, IF lang = "Russian" THEN "prompt:Russian" ELSE "prompt:English")
      w2 == Emit(w1, "responses.parse")
  IN IF e.llm = "raise"
     THEN Raised(Emit(Emit(w2, "responses.parse:raise"), "logger.error:openai"), "APIError", item)
     ELSE IF e.llm = "null"
     THEN Raised(Emit(Emit(Emit(w2, "output_parsed:None"), "logger.error:no_result"), "logger.error:openai"),
                 "ValueError", item)
     ELSE AnalyzerPersist(w2, item, e.result, e.now)


\* ======================================== audio_generator/elevenlabs_tts.py
\* ElevenLabsTTS.__init__
ElevenLabsTTSInit(st) ==
  [api_key |-> st.elevenlabs_api_key, voice_id |-> "Rachel",
   sample_rate |-> st.audio_sample_rate, format |-> st.audio_format]

\* what the libraries do in one call of ElevenLabsTTS.run:
\*   tts      "ok", or the step of the elevenlabs call that raises
\*   pydub    AudioSegment.silent(...).export(...)
\*   wave     the wave-module writer
\*   convert  AudioSegment.from_wav(...).export(...)
TTSOutcomes == {"ok", "import", "generate", "save"}
\*   speech_ds the length of the speech the service returns, in tenths of a second
SpeechDurations == {4, 70}
\* The outcome of a call that cannot be reached is not drawn: no speech
\* length when the service fails, no wave writer when the audio library
\* works, no conversion unless the wave writer was used and worked.
TTSEnvs ==
  { e \in [tts : TTSOutcomes, speech_ds : SpeechDurations,
           pydub : {"ok", "raise"}, wave : {"ok", "raise"}, convert : {"ok", "raise"}] :
      /\ e.tts # "ok" => e.speech_ds = 4
      /\ e.pydub = "ok" => e.wave = "ok"
      /\ (e.pydub = "ok" \/ e.wave = "raise") => e.convert = "ok" }

\* the files the audio stage writes
SpeechFile(text, duration_ds) == [kind |-> "speech", text |-> text, duration_ds |-> duration_ds]
\* AudioSegment.silent exporting a clip with no samples
SilentSegmentMutNoSamples(duration_ms, frame_rate, format) ==
  [kind |-> "silent", duration_ms |-> 0, frame_rate |-> frame_rate, format |-> format]
\* AudioSegment.silent(duration, frame_rate).export(path, format)
SilentSegment(duration_ms, frame_rate, format) ==
  [kind |-> "silent", duration_ms |-> duration_ms, frame_rate |-> frame_rate, format |-> format]
\* frames holds the bytes of b"\x00\x00" * n_frames
WaveFile(n_channels, sampwidth, framerate, n_frames) ==
  [kind |-> "wave", nchannels |-> n_channels, sampwidth |-> sampwidth,
   framerate |-> framerate, nframes |-> n_frames, nbytes |-> 2 * n_frames,
   frames |-> Rep(0, 2 * n_frames)]
ConvertedFile(wav, format) == [kind |-> "converted", of |-> wav, format |-> format]
EmptyFile == [kind |-> "empty"]

\* variant: the empty placeholder is written at the .wav path
create_silent_audio_MutWavPlaceholder(w, self, audio_path, duration_sec, e) ==
  LET w1 == Emit(Mkdir(w, Parent(audio_path)), "mkdir:audio_parent")
      w2 == Emit(w1, "pydub.silent")
  IN IF e.pydub = "ok"
     THEN [w |-> WriteFile(w2, audio_path, SilentSegment(duration_sec * 1000, self.sample_rate, self.format)),
           path |-> Some(audio_path)]
     ELSE LET w3 == Emit(Emit(w2, "pydub.silent:raise"), "logger.error:pydub")
              n_channels == 1
              sampwidth == 2
              framerate == self.sample_rate
              n_frames == duration_sec * framerate
              wav_path == WithSuffix(audio_path, "wav")
              w4 == Emit(w3, "wave.write")
          IN IF e.wave = "ok"
             THEN LET w5 == WriteFile(w4, wav_path, WaveFile(n_channels, sampwidth, framerate, n_frames)) IN
                  IF audio_path.ext # "wav"
                  THEN LET w6 == Emit(w5, "pydub.from_wav") IN
                       IF e.convert = "ok"
                       THEN [w |-> WriteFile(w6, audio_path, ConvertedFile(w5.fs[wav_path], self.format)),
                             path |-> Some(audio_path)]
                       ELSE [w |-> Emit(w6, "pydub.from_wav:raise"), path |-> Some(wav_path)]
                  \* no return statement is reached: the function returns None
                  ELSE [w |-> w5, path |-> None]
             ELSE LET w5 == Emit(Emit(w4, "wave.write:raise"), "write_bytes:empty") IN
                  [w |-> WriteFile(w5, wav_path, EmptyFile), path |-> Some(wav_path)]

\* variant: the wave writer always writes the default number of seconds
create_silent_audio_MutFixedLength(w, self, audio_path, duration_sec, e) ==
  LET w1 == Emit(Mkdir(w, Parent(audio_path)), "mkdir:audio_parent")
      w2 == Emit(w1, "pydub.silent")
  IN IF e.pydub = "ok"
     THEN [w |-> WriteFile(w2, audio_path, SilentSegment(duration_sec * 1000, self.sample_rate, self.format)),
           path |-> Some(audio_path)]
     ELSE LET w3 == Emit(Emit(w2, "pydub.silent:raise"), "logger.error:pydub")
              n_channels == 1
              sampwidth == 2
              framerate == self.sample_rate
              n_frames == DefaultSilentSec * framerate
              wav_path == WithSuffix(audio_path, "wav")
              w4 == Emit(w3, "wave.write")
          IN IF e.wave = "ok"
             THEN LET w5 == WriteFile(w4, wav_path, WaveFile(n_channels, sampwidth, framerate, n_frames)) IN
                  IF audio_path.ext # "wav"
                  THEN LET w6 == Emit(w5, "pydub.from_wav") IN
                       IF e.convert = "ok"
                       THEN [w |-> WriteFile(w6, audio_path, ConvertedFile(w5.fs[wav_path], self.format)),
                             path |-> Some(audio_path)]
                       ELSE [w |-> Emit(w6, "pydub.from_wav:raise"), path |-> Some(wav_path)]
                  \* no return statement is reached: the function returns None
                  ELSE [w |-> w5, path |-> None]
             ELSE LET w5 == Emit(Emit(w4, "wave.write:raise"), "write_bytes:empty") IN
                  [w |-> WriteFile(w5, audio_path, EmptyFile), path |-> Some(audio_path)]

\* ElevenLabsTTS._create_silent_audio: [w, path], path the value returned
create_silent_audio(w, self, audio_path, duration_sec, e) ==
  LET w1 == Emit(Mkdir(w, Parent(audio_path)), "mkdir:audio_parent")
      w2 == Emit(w1, "pydub.silent")
  IN IF e.pydub = "ok"
     THEN [w |-> WriteFile(w2, audio_path, SilentSegment(duration_sec * 1000, self.sample_rate, self.format)),
           path |-> Some(audio_path)]
     ELSE LET w3 == Emit(Emit(w2, "pydub.silent:raise"), "logger.error:pydub")
              n_channels == 1
              sampwidth == 2
              framerate == self.sample_rate
              n_frames == duration_sec * framerate
              wav_path == WithSuffix(audio_path, "wav")
              w4 == Emit(w3, "wave.write")
          IN IF e.wave = "ok"
             THEN LET w5 == WriteFile(w4, wav_path, WaveFile(n_channels, sampwidth, framerate, n_frames)) IN
                  IF audio_path.ext # "wav"
                  THEN LET w6 == Emit(w5, "pydub.from_wav") IN
                       IF e.convert = "ok"
                       THEN [w |-> WriteFile(w6, audio_path, ConvertedFile(w5.fs[wav_path], self.format)),
                             path |-> Some(audio_path)]
                       ELSE [w |-> Emit(w6, "pydub.from_wav:raise"), path |-> Some(wav_path)]
                  \* no return statement is reached: the function returns None
                  ELSE [w |-> w5, path |-> None]
             ELSE LET w5 == Emit(Emit(w4, "wave.write:raise"), "write_bytes:empty") IN
                  [w |-> WriteFile(w5, audio_path, EmptyFile), path |-> Some(audio_path)]

\* AudioItem(path=...): path is a required Path, None fails validation
AudioItem(w, path, item) ==
  IF path = None THEN Raised(w, "ValidationError", item)
  ELSE Returned(w, [path |-> Val(path)], item)

\* the try block of ElevenLabsTTS.run: [w, ok]
elevenlabs_call(w, self, item, audio_path, e) ==
  LET w1 == Emit(w, "import:elevenlabs")
      w2 == Emit(w1, "elevenlabs.generate")
      w3 == Emit(w2, "elevenlabs.save")
      text == IF item.context_analysis # None THEN "summary" ELSE "content"
  IN CASE e.tts = "import"   -> [w |-> Emit(w1, "import:elevenlabs:raise"), ok |-> FALSE]
       [] e.tts = "generate" -> [w |-> Emit(w2, "elevenlabs.generate:raise"), ok |-> FALSE]
       [] e.tts = "save"     -> [w |-> Emit(w3, "elevenlabs.save:raise"), ok |-> FALSE]
       [] OTHER              -> [w |-> WriteFile(w3, audio_path, SpeechFile(text, e.speech_ds)), ok |-> TRUE]

\* variant: no `if not self.api_key` guard before the service call
TTSRunMutAlwaysCall(w, self, item, e) ==
  IF item.output_dir = None THEN Raised(w, "AssertionError", item)
  ELSE
    LET audio_path == PathOf(Val(item.output_dir), "speech", self.format)
        t == elevenlabs_call(w, self, item, audio_path, e)
    IN IF t.ok THEN AudioItem(t.w, Some(audio_path), item)
       ELSE LET s == create_silent_audio(Emit(t.w, "logger.error:elevenlabs"), self, audio_path,
                                         DefaultSilentSec, e)
            IN AudioItem(s.w, s.path, item)

\* variant: the working directory is prepared before the item is checked
TTSRunMutLateCheck(w, self, item, e) ==
  IF item.output_dir = None
  THEN Raised(Emit(Mkdir(w, [root |-> "output"]), "mkdir:audio_parent"), "AssertionError", item)
  ELSE
    LET audio_path == PathOf(Val(item.output_dir), "speech", self.format) IN
    IF self.api_key = ""
    THEN LET s == create_silent_audio(Emit(w, "logger.warning:no_api_key"), self, audio_path,
                                      DefaultSilentSec, e)
         IN AudioItem(s.w, s.path, item)
    ELSE LET t == elevenlabs_call(w, self, item, audio_path, e) IN
         IF t.ok THEN AudioItem(t.w, Some(audio_path), item)
         ELSE LET s == create_silent_audio(Emit(t.w, "logger.error:elevenlabs"), self, audio_path,
                                           DefaultSilentSec, e)
              IN AudioItem(s.w, s.path, item)

\* ElevenLabsTTS.run
TTSRun(w, self, item, e) ==
  IF item.output_dir = None THEN Raised(w, "AssertionError", item)
  ELSE
    LET audio_path == PathOf(Val(item.output_dir), "speech", self.format) IN
    IF self.api_key = ""
    THEN LET s == create_silent_audio(Emit(w, "logger.warning:no_api_key"), self, audio_path,
                                      DefaultSilentSec, e)
         IN AudioItem(s.w, s.path, item)
    ELSE LET t == elevenlabs_call(w, self, item, audio_path, e) IN
         IF t.ok THEN AudioItem(t.w, Some(audio_path), item)
         ELSE LET s == create_silent_audio(Emit(t.w, "logger.error:elevenlabs"), self, audio_path,
                                           DefaultSilentSec, e)
              IN AudioItem(s.w, s.path, item)

\* ========================================= image_generator/simple_card.py
SimpleCardGeneratorInit(st) == [format |-> st.image_format]
ImageEnvs == [font : {"ok", "raise"}, save : {"ok", "raise"}]
ImageFile(title, font) == [kind |-> "image", title |-> title, font |-> font]

\* SimpleCardGenerator.run dropping the analysis from the item once the
\* title has been taken from it
ImageRunMutClearsAnalysis(w, self, item, e) ==
  IF item.output_dir = None THEN Raised(w, "AssertionError", item)
  ELSE
    LET image_path == PathOf(Val(item.output_dir), "cover", self.format)
        title == IF item.context_analysis # None THEN "topic" ELSE "Bible Podcaster"
        w1 == Emit(w, "ImageFont.truetype")
        w2 == IF e.font = "ok" THEN w1
              ELSE Emit(Emit(w1, "ImageFont.truetype:raise"), "ImageFont.load_default")
        font == IF e.font = "ok" THEN "Arial" ELSE "default"
        w3 == Emit(Emit(Mkdir(w2, Parent(image_path)), "mkdir:image_parent"), "img.save")
        used == [item EXCEPT !.context_analysis = None]
    IN IF e.save = "ok"
       THEN Returned(WriteFile(w3, image_path, ImageFile(title, font)), [path |-> image_path], used)
       ELSE Raised(Emit(w3, "img.save:raise"), "ImageError", used)

\* SimpleCardGenerator.run
ImageRun(w, self, item, e) ==
  IF item.output_dir = None THEN Raised(w, "AssertionError", item)
  ELSE
    LET image_path == PathOf(Val(item.output_dir), "cover", self.format)
        title == IF item.context_analysis # None THEN "topic" ELSE "Bible Podcaster"
        w1 == Emit(w, "ImageFont.truetype")
        w2 == IF e.font = "ok" THEN w1
              ELSE Emit(Emit(w1, "ImageFont.truetype:raise"), "ImageFont.load_default")
        font == IF e.font = "ok" THEN "Arial" ELSE "default"
        w3 == Emit(Emit(Mkdir(w2, Parent(image_path)), "mkdir:image_parent"), "img.save")
    IN IF e.save = "ok"
       THEN Returned(WriteFile(w3, image_path, ImageFile(title, font)), [path |-> image_path], item)
       ELSE Raised(Emit(w3, "img.save:raise"), "ImageError", item)


\* ========================================= video_creator/moviepy_editor.py
SimpleVideoCreatorInit(st) == [format |-> st.video_format]

\* what the libraries do in one call of SimpleVideoCreator.run; encode
\* "partial" is write_videofile raising after it has begun the output file
\* (nothing is drawn for a call that a failed import or a failed image clip
\* keeps from being made)
VideoEnvs ==
  { e \in [import : {"ok", "raise"}, probe : {"ok", "raise"}, clip : {"ok", "raise"},
           attach : {"ok", "raise"}, fade : {"ok", "raise"}, encode : {"ok", "raise", "partial"}] :
      /\ e.import = "raise" => (e.probe = "ok" /\ e.clip = "ok")
      /\ (e.import = "raise" \/ e.clip = "raise") =>
           (e.attach = "ok" /\ e.fade = "ok" /\ e.encode = "ok") }

\* a file an audio library can decode
Readable(f, p) == Exists(f, p) /\ f[p].kind # "empty"

\* AudioSegment.duration_seconds, in tenths of a second
DurationDs(data) ==
  CASE data.kind = "speech"    -> data.duration_ds
    [] data.kind = "silent"    -> data.duration_ms \div 100
    [] data.kind = "wave"      -> (10 * data.nframes) \div data.framerate
    [] data.kind = "converted" -> (10 * data.of.nframes) \div data.of.framerate
    [] OTHER                   -> 0

Max(a, b) == IF a > b THEN a ELSE b

\* AudioSegment.from_file succeeds: pydub imports and decodes the file
ProbeOk(f, audio_item, e) == e.probe = "ok" /\ Readable(f, audio_item.path)

\* _get_audio_duration using the floor, not the default, when the probe fails
get_audio_durationMutFloor(f, audio_item, e) ==
  IF ProbeOk(f, audio_item, e)
  THEN Max(MinDurationDs, DurationDs(f[audio_item.path]))
  ELSE MinDurationDs

\* _get_audio_duration returning the measured duration as it is
get_audio_durationMutNoFloor(f, audio_item, e) ==
  IF ProbeOk(f, audio_item, e)
  THEN DurationDs(f[audio_item.path])
  ELSE DefaultDurationDs

\* SimpleVideoCreator._get_audio_duration
get_audio_duration(f, audio_item, e) ==
  IF ProbeOk(f, audio_item, e)
  THEN Max(MinDurationDs, DurationDs(f[audio_item.path]))
  ELSE DefaultDurationDs

\* the requests _get_audio_duration makes
get_audio_duration_log(w, audio_item, e) ==
  LET w1 == Emit(w, "get_audio_duration")
  IN IF ProbeOk(w.fs, audio_item, e) THEN w1 ELSE Emit(w1, "get_audio_duration:except")

VideoFile(duration, has_audio, faded) ==
  [kind |-> "video", duration_ds |-> duration, has_audio |-> has_audio, faded |-> faded]
PartialFile == [kind |-> "partial"]

\* SimpleVideoCreator.run logging a failed write_videofile and returning the
\* VideoItem all the same
VideoRunMutSwallowsEncode(w, self, item, e) ==
  LET audio_item == item[1]
      image_item == item[2]
      output_dir == Parent(image_item.path)
      video_path == PathOf(output_dir, "video", self.format)
      w1 == Emit(w, "import:moviepy")
      duration == get_audio_duration(w.fs, audio_item, e)
      w2 == Emit(get_audio_duration_log(w1, audio_item, e), "ImageClip")
      clip_ok == e.clip = "ok" /\ Exists(w.fs, image_item.path)
      attach_ok == e.attach = "ok" /\ Readable(w.fs, audio_item.path)
      w3 == Emit(w2, "AudioFileClip")
      w4 == IF attach_ok THEN w3 ELSE Emit(Emit(w3, "AudioFileClip:raise"), "logger.warning:no_audio")
      w5 == Emit(w4, "fade")
      w6 == IF e.fade = "ok" THEN w5 ELSE Emit(w5, "fade:raise")
      w7 == Emit(w6, "write_videofile")
      fail(wx, ev) == Raised(Emit(Emit(wx, ev), "logger.error:moviepy"), "VideoError", item)
  IN CASE e.import = "raise" -> fail(w1, "import:moviepy:raise")
       [] ~clip_ok           -> fail(w2, "ImageClip:raise")
       [] e.encode = "raise" ->
            Returned(Emit(Emit(w7, "write_videofile:raise"), "logger.error:moviepy"),
                     [path |-> video_path], item)
       [] e.encode = "partial" ->
            fail(WriteFile(w7, video_path, PartialFile), "write_videofile:raise")
       [] OTHER ->
            Returned(WriteFile(w7, video_path, VideoFile(duration, attach_ok, e.fade = "ok")),
                     [path |-> video_path], item)

\* SimpleVideoCreator.run with no handler around the audio attachment
VideoRunMutFatalAttach(w, self, item, e) ==
  LET audio_item == item[1]
      image_item == item[2]
      output_dir == Parent(image_item.path)
      video_path == PathOf(output_dir, "video", self.format)
      w1 == Emit(w, "import:moviepy")
      duration == get_audio_duration(w.fs, audio_item, e)
      w2 == Emit(get_audio_duration_log(w1, audio_item, e), "ImageClip")
      clip_ok == e.clip = "ok" /\ Exists(w.fs, image_item.path)
      attach_ok == e.attach = "ok" /\ Readable(w.fs, audio_item.path)
      w3 == Emit(w2, "AudioFileClip")
      w4 == IF attach_ok THEN w3 ELSE Emit(Emit(w3, "AudioFileClip:raise"), "logger.warning:no_audio")
      w5 == Emit(w4, "fade")
      w6 == IF e.fade = "ok" THEN w5 ELSE Emit(w5, "fade:raise")
      w7 == Emit(w6, "write_videofile")
      fail(wx, ev) == Raised(Emit(Emit(wx, ev), "logger.error:moviepy"), "VideoError", item)
  IN CASE e.import = "raise" -> fail(w1, "import:moviepy:raise")
       [] ~clip_ok           -> fail(w2, "ImageClip:raise")
       [] ~attach_ok         -> fail(w3, "AudioFileClip:raise")
       [] e.encode = "raise" -> fail(w7, "write_videofile:raise")
       [] e.encode = "partial" ->
            fail(WriteFile(w7, video_path, PartialFile), "write_videofile:raise")
       [] OTHER ->
            Returned(WriteFile(w7, video_path, VideoFile(duration, attach_ok, e.fade = "ok")),
                     [path |-> video_path], item)

\* SimpleVideoCreator.run
VideoRun(w, self, item, e) ==
  LET audio_item == item[1]
      image_item == item[2]
      output_dir == Parent(image_item.path)
      video_path == PathOf(output_dir, "video", self.format)
      w1 == Emit(w, "import:moviepy")
      duration == get_audio_duration(w.fs, audio_item, e)
      w2 == Emit(get_audio_duration_log(w1, audio_item, e), "ImageClip")
      clip_ok == e.clip = "ok" /\ Exists(w.fs, image_item.path)
      attach_ok == e.attach = "ok" /\ Readable(w.fs, audio_item.path)
      w3 == Emit(w2, "AudioFileClip")
      w4 == IF attach_ok THEN w3 ELSE Emit(Emit(w3, "AudioFileClip:raise"), "logger.warning:no_audio")
      w5 == Emit(w4, "fade")
      w6 == IF e.fade = "ok" THEN w5 ELSE Emit(w5, "fade:raise")
      w7 == Emit(w6, "write_videofile")
      fail(wx, ev) == Raised(Emit(Emit(wx, ev), "logger.error:moviepy"), "VideoError", item)
  IN CASE e.import = "raise" -> fail(w1, "import:moviepy:raise")
       [] ~clip_ok           -> fail(w2, "ImageClip:raise")
       [] e.encode = "raise" -> fail(w7, "write_videofile:raise")
       [] e.encode = "partial" ->
            fail(WriteFile(w7, video_path, PartialFile), "write_videofile:raise")
       [] OTHER ->
            Returned(WriteFile(w7, video_path, VideoFile(duration, attach_ok, e.fade = "ok")),
                     [path |-> video_path], item)

\* ============================================================== uploader
\* YouTubeUploader.run: VideoItem -> VideoItem
UploaderRun(w, item) == Returned(Emit(w, "uploader.run"), item, item)

\* ========================================================== entry points
World == [fs |-> fs, dirs |-> dirs, log |-> log]

\* one stage.run(a) call that ended as r
Call(stage, a, r) ==
  [stage |-> stage, arg |-> a, arg_out |-> r.item, raised |-> r.raised, ret |-> r.ret]

\* the call named `name`, made with argument a, ended as r after making
\* the stage calls inv
FinishWith(name, a, r, inv) ==
  /\ op' = name
  /\ arg' = a
  /\ \E end \in {r} :
       /\ arg_out' = end.item
       /\ fs' = end.w.fs
       /\ dirs' = end.w.dirs
       /\ log' = end.w.log
       /\ raised' = end.raised
       /\ ret' = end.ret
  /\ invoked' = inv
  /\ UNCHANGED settings
  /\ UNCHANGED drvVars

\* the call named `name`, made with argument a, ended as r
Finish(name, a, r) == \E end \in {r} : FinishWith(name, a, end, << Call(name, a, end) >>)

OutputDirs == { topic_folder(1, <<"a">>) }
Optional(S) == {None} \cup {Some(x) : x \in S}
TextItems == [content : Contents, context_analysis : Optional(AnalysisResults), output_dir : Optional(OutputDirs)]

\* BiblicalContextAnalyzer().run(TextItem(content=...))
AnalyzerCall ==
  /\ op = "none"
  /\ \E content \in Contents, e \in AnalyzerEnvs :
       Finish("BiblicalContextAnalyzer.run", NewTextItem(content),
              AnalyzerRun(World, NewTextItem(content), e))

\* ElevenLabsTTS().run(item)
TTSCall ==
  /\ op = "none"
  /\ \E item \in TextItems, e \in TTSEnvs :
       Finish("ElevenLabsTTS.run", item, TTSRun(World, ElevenLabsTTSInit(settings), item, e))

\* the durations _create_silent_audio is asked for: the default and a few others
SilentSecs == (1..MaxSilentSec) \cup {DefaultSilentSec}

\* ElevenLabsTTS()._create_silent_audio(audio_path, duration_sec); the call
\* is recorded in invoked with both arguments
SilentCall ==
  /\ op = "none"
  /\ \E d \in OutputDirs, ext \in AudioFormats, duration_sec \in SilentSecs, e \in TTSEnvs :
       \E audio_path \in { PathOf(d, "speech", ext) } :
       \E s \in { create_silent_audio(World, ElevenLabsTTSInit(settings), audio_path, duration_sec, e) } :
       \E end \in { [w |-> s.w, raised |-> "none", ret |-> s.path, item |-> audio_path] } :
         FinishWith("ElevenLabsTTS._create_silent_audio", audio_path, end,
                    << Call("ElevenLabsTTS._create_silent_audio", <<audio_path, duration_sec>>, end) >>)

\* SimpleCardGenerator().run(item)
ImageCall ==
  /\ op = "none"
  /\ \E item \in TextItems, e \in ImageEnvs :
       Finish("SimpleCardGenerator.run", item, ImageRun(World, SimpleCardGeneratorInit(settings), item, e))

\* the audio files a video call may find on disk
AudioFixtures ==
  { SpeechFile("summary", d) : d \in SpeechDurations } \cup
  { SilentSegment(DefaultSilentSec * 1000, r, "mp3") : r \in SampleRates } \cup
  { WaveFile(1, 2, r, DefaultSilentSec * r) : r \in SampleRates } \cup { EmptyFile }

\* SimpleVideoCreator().run((audio_item, image_item)), the two items naming
\* files in one output directory, each file present or missing
VideoCall ==
  /\ op = "none"
  /\ \E d \in OutputDirs, audio \in Optional(AudioFixtures), image \in BOOLEAN, e \in VideoEnvs :
       LET audio_path == PathOf(d, "speech", settings.audio_format)
           image_path == PathOf(d, "cover", settings.image_format)
           wa == IF audio = None THEN World ELSE WriteFile(World, audio_path, Val(audio))
           wi == IF image THEN WriteFile(wa, image_path, ImageFile("topic", "Arial")) ELSE wa
           item == << [path |-> audio_path], [path |-> image_path] >>
       IN Finish("SimpleVideoCreator.run", item,
                 VideoRun(Mkdir(wi, d), SimpleVideoCreatorInit(settings), item, e))

\* the sample with l letters outside the script range, c letters and m
\* non-letters inside it and d other non-letters
Sample(l, c, m, d) == Rep("L", l) \o Rep("C", c) \o Rep("M", m) \o Rep("D", d)

\* BiblicalContextAnalyzer()._detect_language(t) and ._detect_language(u),
\* u being t with j of its letters replaced by script-range letters and i
\* script-range non-letters added: as many alphabetic characters, no fewer
\* script-range ones
DetectCall ==
  /\ op = "none"
  /\ \E l \in 0..MaxAlpha, c \in 0..MaxAlpha, m \in 0..MaxMarks, d \in 0..1 :
       /\ l + c <= MaxAlpha
       /\ \E j \in 0..l, i \in 0..(MaxMarks - m) :
            LET t == Sample(l, c, m, d)
                u == Sample(l - j, c + j, m + i, d)
            IN Finish("BiblicalContextAnalyzer._detect_language", <<t, u>>,
                      Returned(World, << detect_language(t), detect_language(u) >>, <<t, u>>))

\* SimpleVideoCreator()._get_audio_duration(audio_item), the audio file
\* present or missing
DurationCall ==
  /\ op = "none"
  /\ \E d \in OutputDirs, audio \in Optional(AudioFixtures), e \in VideoEnvs :
       LET audio_item == [path |-> PathOf(d, "speech", settings.audio_format)]
           w == IF audio = None THEN World ELSE WriteFile(World, audio_item.path, Val(audio))
       IN Finish("SimpleVideoCreator._get_audio_duration", audio_item,
                 Returned(get_audio_duration_log(Mkdir(w, d), audio_item, e),
                          get_audio_duration(w.fs, audio_item, e), audio_item))

\* the order in which run_pipeline constructs and calls the stages
PipelineOrder ==
  << "BiblicalContextAnalyzer.run", "ElevenLabsTTS.run", "SimpleCardGenerator.run",
     "SimpleVideoCreator.run", "YouTubeUploader.run" >>

\* run_pipeline handing the speech stage a fresh TextItem built from the
\* input text instead of the item the analyzer returned
run_pipelineMutFreshItem ==
  /\ op = "none"
  /\ \E input_text \in Contents, eA \in AnalyzerEnvs :
       \E a \in { AnalyzerRun(World, NewTextItem(input_text), eA) } :
       LET ca == Call(PipelineOrder[1], NewTextItem(input_text), a) IN
       IF a.raised # "none" THEN FinishWith("run_pipeline", input_text, a, <<ca>>) ELSE
       \E eT \in TTSEnvs :
       \E t \in { TTSRun(a.w, ElevenLabsTTSInit(settings), NewTextItem(input_text), eT) } :
       LET ct == Call(PipelineOrder[2], NewTextItem(input_text), t) IN
       FinishWith("run_pipeline", input_text, t, <<ca, ct>>)

\* main.run_pipeline(input_text). The outcome of each library or service
\* call is drawn when the call is made. ret is the VideoItem whose path the
\* final print reports.
run_pipeline ==
  /\ op = "none"
  /\ \E input_text \in Contents, eA \in AnalyzerEnvs :
       \E a \in { AnalyzerRun(World, NewTextItem(input_text), eA) } :
       LET ca == Call(PipelineOrder[1], NewTextItem(input_text), a) IN
       IF a.raised # "none" THEN FinishWith("run_pipeline", input_text, a, <<ca>>) ELSE
       \E text_item \in { Val(a.ret) }, eT \in TTSEnvs :
       \E t \in { TTSRun(a.w, ElevenLabsTTSInit(settings), text_item, eT) } :
       LET ct == Call(PipelineOrder[2], text_item, t) IN
       IF t.raised # "none" THEN FinishWith("run_pipeline", input_text, t, <<ca, ct>>) ELSE
       \E eI \in ImageEnvs :
       \E i \in { ImageRun(t.w, SimpleCardGeneratorInit(settings), text_item, eI) } :
       LET ci == Call(PipelineOrder[3], text_item, i) IN
       IF i.raised # "none" THEN FinishWith("run_pipeline", input_text, i, <<ca, ct, ci>>) ELSE
       \E pair \in { << Val(t.ret), Val(i.ret) >> }, eV \in VideoEnvs :
       \E v \in { VideoRun(i.w, SimpleVideoCreatorInit(settings), pair, eV) } :
       LET cv == Call(PipelineOrder[4], pair, v) IN
       IF v.raised # "none" THEN FinishWith("run_pipeline", input_text, v, <<ca, ct, ci, cv>>) ELSE
       \E u \in { UploaderRun(v.w, Val(v.ret)) } :
       LET cu == Call(PipelineOrder[5], Val(v.ret), u) IN
       FinishWith("run_pipeline", input_text,
                  Returned(Emit(u.w, "print:completed"), Val(v.ret), input_text),
                  <<ca, ct, ci, cv, cu>>)

\* ========================================================= specifications
InitWorld ==
  /\ fs = EmptyFs
  /\ dirs = {}
  /\ log = <<>>
  /\ op = "none"
  /\ arg = None
  /\ arg_out = None
  /\ raised = "none"
  /\ ret = None
  /\ invoked = <<>>

Init ==
  /\ settings \in Settings
  /\ InitWorld
  /\ InitDriverVars

Next ==
  \/ AnalyzerCall
  \/ TTSCall
  \/ SilentCall
  \/ ImageCall
  \/ VideoCall
  \/ DurationCall
  \/ DetectCall
  \/ run_pipeline

Spec == Init /\ [][Next]_vars

InitDriver ==
  /\ settings = [elevenlabs_api_key |-> "", audio_format |-> "mp3", audio_sample_rate |-> 1,
                 image_format |-> "png", video_format |-> "mp4"]
  /\ InitWorld
  /\ InitDriverVars

NextDriver ==
  \/ \E stage \in StageKinds : add_stage(stage)
  \/ \E item \in Items : PipelineRunCall(item)
  \/ PipelineRunStage
  \/ PipelineRunReturn

SpecDriver == InitDriver /\ [][NextDriver]_vars


\* ================================================================ claims
\* the value the first k stages make of x, each fed the one before
RECURSIVE FoldStages(_, _, _)
FoldStages(ss, k, x) == IF k = 0 THEN x ELSE StageRun(ss[k], FoldStages(ss, k - 1, x)).value

\* C1: Pipeline.run calls the stages in the order of add_stage, the k-th
\* with the value the (k-1)-th returned (the first with the initial item),
\* each exactly once, and returns the value of the last.
C1_RunFoldsStagesInOrder ==
  /\ run_pc # "idle" =>
       \A k \in 1..Len(calls) :
         /\ calls[k].stage = k
         /\ calls[k].arg = FoldStages(stages, k - 1, run_arg)
  /\ run_pc = "returned" =>
       /\ Len(calls) = Len(stages)
       /\ run_item = FoldStages(stages, Len(stages), run_arg)

C1_Witness ==
  /\ run_pc = "returned"
  /\ Len(stages) >= 2
  /\ stages[1] # stages[2]
  /\ run_item # run_arg

\* C2: when a stage raises, Pipeline.run raises and calls no later stage:
\* a call that raised is the last call of its run, and the run has raised.
C2_RaiseAbortsFold ==
  /\ \A k \in 1..Len(calls) :
       StageRun(stages[calls[k].stage], calls[k].arg).raised =>
         (k = Len(calls) /\ run_pc = "raised")
  /\ run_pc = "raised" =>
       (Len(calls) >= 1 /\ StageRun(stages[calls[Len(calls)].stage], calls[Len(calls)].arg).raised)

C2_Witness ==
  /\ run_pc = "raised"
  /\ Len(calls) >= 2
  /\ Len(calls) < Len(stages)

VideoFiles == {p \in DOMAIN fs : p.stem = "video"}

C4_AudioStageAlwaysReturns ==
  (op = "ElevenLabsTTS.run" /\ arg.output_dir # None) =>
    /\ raised = "none"
    /\ ret # None
    /\ Exists(fs, Val(ret).path)

ServiceRequests == {"import:elevenlabs", "elevenlabs.generate", "elevenlabs.save"}

\* C5: with no credential, ElevenLabsTTS.run starts silent-audio synthesis
\* at once and asks nothing of the speech service.
C5_NoCredentialNoServiceCall ==
  (op = "ElevenLabsTTS.run" /\ settings.elevenlabs_api_key = "" /\ arg.output_dir # None) =>
    /\ \A ev \in ServiceRequests : ~Has(log, ev)
    /\ Len(log) >= 3
    /\ log[1] = "logger.warning:no_api_key"
    /\ log[2] = "mkdir:audio_parent"
    /\ log[3] = "pydub.silent"

C5_Witness ==
  /\ op = "ElevenLabsTTS.run"
  /\ settings.elevenlabs_api_key = ""
  /\ arg.output_dir # None
  /\ raised = "none"

\* the path ElevenLabsTTS.run asked the silent-audio synthesis for
RequestedAudioPath == PathOf(Val(arg.output_dir), "speech", settings.audio_format)
ServiceRaised ==
  \/ Has(log, "import:elevenlabs:raise")
  \/ Has(log, "elevenlabs.generate:raise")
  \/ Has(log, "elevenlabs.save:raise")

\* C6: when the speech-service call raises, ElevenLabsTTS.run runs the
\* silent-audio synthesis and returns an AudioItem with the path it gave.
C6_ServiceErrorFallsBack ==
  (op = "ElevenLabsTTS.run" /\ settings.elevenlabs_api_key # "" /\ arg.output_dir # None /\ ServiceRaised) =>
    /\ Has(log, "pydub.silent")
    /\ raised = "none"
    /\ ret # None
    /\ Val(ret).path = IF Has(log, "pydub.from_wav:raise")
                       THEN WithSuffix(RequestedAudioPath, "wav") ELSE RequestedAudioPath

SilentOps == {"ElevenLabsTTS.run", "ElevenLabsTTS._create_silent_audio"}
SilentRequested == IF op = "ElevenLabsTTS.run" THEN RequestedAudioPath ELSE arg
SilentReturned == IF op = "ElevenLabsTTS.run" THEN (IF ret = None THEN None ELSE Some(Val(ret).path)) ELSE ret

\* C7: silent-audio synthesis tries the audio library first, the wave
\* writer only after the audio library raised, the empty placeholder only
\* after the wave writer raised, each at most once; when both raised it
\* writes a zero-byte file at the requested path and returns that path.
C7_SilentTiersInOrder ==
  (op \in SilentOps /\ Has(log, "mkdir:audio_parent")) =>
    /\ \A ev \in {"pydub.silent", "wave.write", "write_bytes:empty"} : Count(log, ev) <= 1
    /\ log[Pos(log, "mkdir:audio_parent") + 1] = "pydub.silent"
    /\ Has(log, "wave.write") =>
         /\ Pos(log, "pydub.silent") < Pos(log, "pydub.silent:raise")
         /\ Pos(log, "pydub.silent:raise") < Pos(log, "wave.write")
    /\ Has(log, "write_bytes:empty") =>
         /\ Pos(log, "wave.write") < Pos(log, "wave.write:raise")
         /\ Pos(log, "wave.write:raise") < Pos(log, "write_bytes:empty")
    /\ (Has(log, "pydub.silent:raise") /\ Has(log, "wave.write:raise")) =>
         /\ raised = "none"
         /\ SilentReturned = Some(SilentRequested)
         /\ Exists(fs, SilentRequested)
         /\ fs[SilentRequested] = EmptyFile

C7_Witness ==
  /\ op = "ElevenLabsTTS._create_silent_audio"
  /\ Has(log, "pydub.silent:raise")
  /\ Has(log, "wave.write:raise")
  /\ Has(log, "write_bytes:empty")
  /\ ret = Some(arg)

AnalyzerOps == {"BiblicalContextAnalyzer.run", "run_pipeline"}
LLMFailed == Has(log, "responses.parse:raise") \/ Has(log, "output_parsed:None")

\* C8: when the language-model call raises or gives no result,
\* BiblicalContextAnalyzer.run raises, having created no folder, written no
\* file and attached nothing to the item.
C8_AnalyzerFailureIsFatal ==
  (op \in AnalyzerOps /\ LLMFailed) =>
    /\ raised # "none"
    /\ ret = None
    /\ dirs = {}
    /\ fs = EmptyFs
    /\ arg_out.context_analysis = None
    /\ ~Has(log, "mkdir:folder")

C8_Witness ==
  /\ op = "BiblicalContextAnalyzer.run"
  /\ Has(log, "output_parsed:None")
  /\ raised = "ValueError"

\* C9: the TextItem BiblicalContextAnalyzer.run returns carries the result
\* and, as output directory, the folder the analyzer created.
C9_AnalyzerSetsOutputDir ==
  (op = "BiblicalContextAnalyzer.run" /\ raised = "none") =>
    /\ Val(ret).context_analysis # None
    /\ Val(ret).output_dir # None
    /\ Val(Val(ret).output_dir) \in dirs

RunDirs == {p.dir : p \in DOMAIN fs}
FileNames == {<<p.stem, p.ext>> : p \in DOMAIN fs}
LibraryRaised ==
  \E ev \in {"img.save:raise", "import:moviepy:raise", "ImageClip:raise", "write_videofile:raise"} : Has(log, ev)

\* C10: when the language model returns a valid result and the rendering
\* and encoding libraries do not fail, run_pipeline completes, the five
\* files lie in the one folder the analyzer created and the VideoItem names
\* the video file there.
C10_FiveFilesInOneFolder ==
  (op = "run_pipeline" /\ Has(log, "attach:context_analysis") /\ ~LibraryRaised) =>
    /\ raised = "none"
    /\ Cardinality(RunDirs) = 1
    /\ RunDirs = dirs
    /\ {<<"input", "txt">>, <<"context_analysis", "json">>, <<"speech", settings.audio_format>>,
        <<"cover", settings.image_format>>, <<"video", settings.video_format>>} \subseteq FileNames
    /\ Val(ret).path = PathOf(CHOOSE d \in dirs : TRUE, "video", settings.video_format)


\* the stage calls one run_pipeline call made, by position
Invoked(k) == invoked[k]
NInvoked == Len(invoked)

VideoOps == op = "SimpleVideoCreator.run"
\* the file the returned VideoItem names
ReturnedVideo == fs[Val(ret).path]

\* C12: when importing the compositor, building the image clip or
\* write_videofile fails, SimpleVideoCreator.run raises and returns no
\* VideoItem.
C12_ComposeFailureIsFatal ==
  ( /\ VideoOps
    /\ \/ Has(log, "import:moviepy:raise")
       \/ Has(log, "ImageClip:raise")
       \/ Has(log, "write_videofile:raise") )
  => raised # "none" /\ ret = None

\* write_videofile was reached and failed, and the call raised
C12_Witness ==
  /\ VideoOps
  /\ Has(log, "write_videofile:raise")
  /\ raised # "none"

\* C13: once SimpleVideoCreator.run has built the image clip, the encode
\* step is attempted whether or not attaching the audio and applying the
\* fades failed, and when the encode succeeds run returns a VideoItem whose
\* file is silent exactly when the attachment failed and un-faded exactly
\* when the fade failed.
C13_AttachAndFadeFailuresAreNotFatal ==
  (VideoOps /\ Has(log, "AudioFileClip")) =>
    /\ Has(log, "fade")
    /\ Has(log, "write_videofile")
    /\ ~Has(log, "write_videofile:raise") =>
         /\ raised = "none"
         /\ IsSome(ret)
         /\ Exists(fs, Val(ret).path)
         /\ ReturnedVideo.kind = "video"
         /\ ReturnedVideo.has_audio = ~Has(log, "AudioFileClip:raise")
         /\ ReturnedVideo.faded = ~Has(log, "fade:raise")

\* both the attachment and the fade failed and a silent, un-faded video
\* was returned
C13_Witness ==
  /\ VideoOps
  /\ Has(log, "AudioFileClip:raise")
  /\ Has(log, "fade:raise")
  /\ raised = "none"
  /\ IsSome(ret)
  /\ ~ReturnedVideo.has_audio
  /\ ~ReturnedVideo.faded

\* the audio file a duration probe was asked about cannot be decoded
AudioOf(a) == IF op = "SimpleVideoCreator.run" THEN a[1] ELSE a
ProbeFailed == Has(log, "get_audio_duration:except")

\* C14: when the duration of the audio cannot be determined,
\* _get_audio_duration returns 5.0 and does not raise, and
\* SimpleVideoCreator.run goes on to build the image clip and, when the
\* encode succeeds, writes a video 5.0 long.
C14_ProbeFailureGivesDefault ==
  /\ (op = "SimpleVideoCreator._get_audio_duration" /\ ProbeFailed) =>
        raised = "none" /\ ret = Some(DefaultDurationDs)
  /\ (op = "SimpleVideoCreator._get_audio_duration" /\ ~Readable(fs, arg.path)) => ProbeFailed
  /\ (VideoOps /\ ProbeFailed) =>
        /\ Has(log, "ImageClip")
        /\ raised = "none" => ReturnedVideo.duration_ds = DefaultDurationDs

\* the zero-byte placeholder was probed and a 5.0 long video was written
C14_Witness ==
  /\ VideoOps
  /\ Exists(fs, arg[1].path)
  /\ fs[arg[1].path] = EmptyFile
  /\ ProbeFailed
  /\ raised = "none"
  /\ ReturnedVideo.duration_ds = DefaultDurationDs

\* the stages that only consume the item they are given
ConsumerOps == {"ElevenLabsTTS.run", "SimpleCardGenerator.run", "SimpleVideoCreator.run"}

\* C15: the speech, image and video stages leave the item(s) they are
\* called with as they found them, whether they return or raise: the
\* TextItem's content, analysis and output directory, and the paths of the
\* AudioItem and ImageItem of the pair, are the same after the call as
\* before it, in a call made directly and in each call run_pipeline makes.
C15_ConsumersLeaveInputsUnchanged ==
  /\ op \in ConsumerOps => arg_out = arg
  /\ op = "run_pipeline" =>
       \A k \in 2..NInvoked :
         Invoked(k).stage \in ConsumerOps => Invoked(k).arg_out = Invoked(k).arg

\* the image stage wrote a cover for an analysed item and the item still
\* carries its analysis
C15_Witness ==
  /\ op = "SimpleCardGenerator.run"
  /\ raised = "none"
  /\ IsSome(arg.context_analysis)
  /\ IsSome(ret)
  /\ Exists(fs, Val(ret).path)
  /\ arg_out.context_analysis = arg.context_analysis

\* no request ev follows a failure of a request ev
NotRetried(ev, failure) ==
  \A i \in 1..Len(log) : \A j \in 1..Len(log) :
    (i < j /\ log[i] = failure) => log[j] # ev

\* C16: one call of the analyzer, and one run of the pipeline, sends the
\* language model exactly one request; no call sends the speech service
\* more than one; and no request follows a failed request to the same
\* service.
C16_OneRequestPerServiceNoRetry ==
  /\ (op \in {"BiblicalContextAnalyzer.run", "run_pipeline"}) => Count(log, "responses.parse") = 1
  /\ Count(log, "elevenlabs.generate") <= 1
  /\ NotRetried("responses.parse", "responses.parse:raise")
  /\ NotRetried("elevenlabs.generate", "elevenlabs.generate:raise")

\* a pipeline run whose one language-model request failed
C16_Witness ==
  /\ op = "run_pipeline"
  /\ Count(log, "responses.parse") = 1
  /\ Count(log, "responses.parse:raise") = 1
  /\ raised = "APIError"

\* ElevenLabsTTS.run returned an AudioItem with no credential configured
NoCredentialReturned ==
  /\ op = "ElevenLabsTTS.run"
  /\ settings.elevenlabs_api_key = ""
  /\ raised = "none"
  /\ IsSome(ret)
\* the file the returned AudioItem names
ReturnedAudioPath == Val(ret).path

\* C17 as stated: with no credential, the AudioItem ElevenLabsTTS.run
\* returns names a file with the configured extension or "wav" that exists
\* and has a duration greater than zero.
C17_NoCredentialAudioHasDuration ==
  NoCredentialReturned =>
    /\ ReturnedAudioPath.ext \in {settings.audio_format, "wav"}
    /\ Exists(fs, ReturnedAudioPath)
    /\ DurationDs(fs[ReturnedAudioPath]) > 0

\* C17 amended: with no credential, the AudioItem ElevenLabsTTS.run
\* returns names a file with the configured extension or "wav" that exists;
\* the file is the zero-byte placeholder, with no duration, exactly when
\* both the audio library and the wave writer failed, and otherwise lasts
\* the fixed duration of the silent clip.
C17_NoCredentialAudioExists ==
  NoCredentialReturned =>
    /\ ReturnedAudioPath.ext \in {settings.audio_format, "wav"}
    /\ Exists(fs, ReturnedAudioPath)
    /\ IF Has(log, "write_bytes:empty")
       THEN fs[ReturnedAudioPath] = EmptyFile /\ DurationDs(fs[ReturnedAudioPath]) = 0
       ELSE DurationDs(fs[ReturnedAudioPath]) = 10 * DefaultSilentSec

\* no credential, the audio library failed, the wave writer succeeded, the
\* conversion failed: the AudioItem names the .wav file
C17_Witness ==
  /\ NoCredentialReturned
  /\ settings.audio_format # "wav"
  /\ ReturnedAudioPath.ext = "wav"
  /\ Exists(fs, ReturnedAudioPath)
  /\ DurationDs(fs[ReturnedAudioPath]) > 0

\* the part of a folder name before the topic: the time stamp and the "_"
TimestampPrefixLen == Len(strftime(1)) + 1
\* the folders one analyzer call created
AnalyzerFolders == IF op \in AnalyzerOps THEN dirs ELSE {}
HasSpace(str) == \E k \in 1..Len(str) : str[k] = " "

\* C18: whatever topic the language model returned, the name of the folder
\* the analyzer creates is at most the length of the time-stamp prefix plus
\* 32 characters long and holds no space.
C18_FolderNameBoundedNoSpaces ==
  \A d \in AnalyzerFolders :
    /\ Len(FolderName(d)) <= TimestampPrefixLen + TopicMaxLen
    /\ ~HasSpace(FolderName(d))

\* a topic with spaces in it and more than 32 other characters gave a
\* folder name of exactly the greatest length
C18_Witness ==
  /\ op = "BiblicalContextAnalyzer.run"
  /\ raised = "none"
  /\ HasSpace(Val(Val(ret).context_analysis).topic)
  /\ Len(RemoveSpaces(Val(Val(ret).context_analysis).topic)) > TopicMaxLen
  /\ \E d \in AnalyzerFolders : Len(FolderName(d)) = TimestampPrefixLen + TopicMaxLen

\* the characters str.isalpha counts, and those in U+0400..U+04FF
Alphabetic(text) == Cardinality({k \in 1..Len(text) : text[k] = "L" \/ text[k] = "C"})
ScriptRange(text) == Cardinality({k \in 1..Len(text) : text[k] = "C" \/ text[k] = "M"})
DetectOps == op = "BiblicalContextAnalyzer._detect_language"

\* C19: of two samples with the same number of alphabetic characters, the
\* second with no fewer script-range characters, _detect_language never
\* answers "Russian" for the first and "English" for the second; and it
\* answers "Russian" exactly when the sample has alphabetic characters and
\* more than 0.3 script-range characters per alphabetic one, "English" at
\* or below 0.3 and when there is no alphabetic character.
C19_DetectLanguageMonotone ==
  DetectOps =>
    LET t == arg[1]
        u == arg[2]
        of_t == Val(ret)[1]
        of_u == Val(ret)[2]
    IN /\ raised = "none"
       /\ (Alphabetic(t) = Alphabetic(u) /\ ScriptRange(t) <= ScriptRange(u) /\ of_t = "Russian")
            => of_u = "Russian"
       /\ of_t = IF Alphabetic(t) > 0 /\ 10 * ScriptRange(t) > 3 * Alphabetic(t)
                 THEN "Russian" ELSE "English"
       /\ of_u = IF Alphabetic(u) > 0 /\ 10 * ScriptRange(u) > 3 * Alphabetic(u)
                 THEN "Russian" ELSE "English"

\* a sample exactly at 0.3 answered "English", and the same sample with one
\* more script-range character "Russian"
C19_Witness ==
  /\ DetectOps
  /\ Alphabetic(arg[1]) = Alphabetic(arg[2])
  /\ 10 * ScriptRange(arg[1]) = 3 * Alphabetic(arg[1])
  /\ Alphabetic(arg[1]) > 0
  /\ ScriptRange(arg[2]) = ScriptRange(arg[1]) + 1
  /\ Val(ret) = <<"English", "Russian">>

\* the ContextAnalysisResult an analyzer call attached to the item it
\* returned (directly, or as the first stage of run_pipeline)
Attached == Val(Val(Invoked(1).ret).context_analysis)
AnalyzerReturned == op \in AnalyzerOps /\ Invoked(1).raised = "none"
\* the label the score calls for, the score in tenths
LabelFor(score) ==
  IF score >= 8 THEN "complete" ELSE IF score >= 5 THEN "partial" ELSE "incomplete"

\* C20: the result the analyzer attaches to the item carries the label its
\* score calls for: "complete" from 0.8, "partial" from 0.5 to below 0.8,
\* "incomplete" below 0.5, whatever pair the language model returned.
C20_LabelConsistentWithScore ==
  AnalyzerReturned =>
    Attached.context_evaluation.thought_completeness =
      LabelFor(Attached.context_evaluation.completeness_score)

\* the wave writer was used and did not fail
WaveWritten == op \in SilentOps /\ Has(log, "wave.write") /\ ~Has(log, "wave.write:raise")
\* the duration the silent-audio synthesis was asked for, in seconds
SilentSec == IF op = "ElevenLabsTTS.run" THEN DefaultSilentSec ELSE Invoked(1).arg[2]
\* the file the wave writer writes
WavPath == WithSuffix(SilentRequested, "wav")

\* C21: when the wave writer is used for d seconds at the configured sample
\* rate r, the file it writes has one channel, 2-byte samples, frame rate
\* r and exactly d*r frames, its sample data being 2*d*r zero bytes, so
\* that it lasts exactly d seconds.
C21_WaveClipShape ==
  WaveWritten =>
    /\ Exists(fs, WavPath)
    /\ LET wav == fs[WavPath]
           d == SilentSec
           r == settings.audio_sample_rate
       IN /\ wav.kind = "wave"
          /\ wav.nchannels = 1
          /\ wav.sampwidth = 2
          /\ wav.framerate = r
          /\ wav.nframes = d * r
          /\ Len(wav.frames) = 2 * d * r
          /\ \A k \in 1..Len(wav.frames) : wav.frames[k] = 0
          /\ wav.nframes = d * wav.framerate
          /\ DurationDs(wav) = 10 * d

\* the wave writer wrote a clip of other than the default length at a
\* sample rate above one
C21_Witness ==
  /\ op = "ElevenLabsTTS._create_silent_audio"
  /\ WaveWritten
  /\ SilentSec # DefaultSilentSec
  /\ SilentSec > 1
  /\ settings.audio_sample_rate > 1
  /\ Exists(fs, WavPath)
  /\ fs[WavPath].nframes = SilentSec * settings.audio_sample_rate

\* the two files the analyzer writes into folder d
InputPath(d) == PathOf(d, "input", "txt")
ResultPath(d) == PathOf(d, "context_analysis", "json")

\* C22: after an analyzer call that returned, the one folder it created
\* holds input.txt with the content the item was passed in with and
\* context_analysis.json with the serialization of the result attached to
\* the returned item, and the result was attached after input.txt and then
\* context_analysis.json had been written.
C22_FilesWrittenBeforeAttach ==
  AnalyzerReturned =>
    /\ Cardinality(dirs) = 1
    /\ \A d \in dirs :
         /\ Exists(fs, InputPath(d))
         /\ fs[InputPath(d)] = TextFile(Invoked(1).arg.content)
         /\ Exists(fs, ResultPath(d))
         /\ fs[ResultPath(d)] = model_dump_json(Attached)
    /\ Invoked(1).arg_out.content = Invoked(1).arg.content
    /\ Count(log, "attach:context_analysis") = 1
    /\ Pos(log, "mkdir:folder") > 0
    /\ Pos(log, "mkdir:folder") < Pos(log, "write:input.txt")
    /\ Pos(log, "write:input.txt") < Pos(log, "write:context_analysis.json")
    /\ Pos(log, "write:context_analysis.json") < Pos(log, "attach:context_analysis")

\* an analysis with a score and label off the table was written to
\* context_analysis.json as returned and attached afterwards
C22_Witness ==
  /\ op = "BiblicalContextAnalyzer.run"
  /\ AnalyzerReturned
  /\ Attached.context_evaluation.thought_completeness = "partial"
  /\ Attached.context_evaluation.completeness_score = 4
  /\ \E d \in dirs : Exists(fs, ResultPath(d)) /\ fs[ResultPath(d)].context_evaluation = Attached.context_evaluation
  /\ log[Len(log)] = "attach:context_analysis"

\* the duration the probe of a call came to, in tenths of a second: what
\* _get_audio_duration returned, or the length of the video written
ProbeOps == {"SimpleVideoCreator._get_audio_duration", "SimpleVideoCreator.run"}
ClipDuration == IF VideoOps THEN ReturnedVideo.duration_ds ELSE Val(ret)
\* the measured duration of the audio file the probe read
Measured == DurationDs(fs[AudioOf(arg).path])

\* C23: the clip duration is never below 1.0: it is the measured duration
\* of the audio, or 1.0 when that is less, when the audio can be read, and
\* 5.0 when it cannot; so for audio shorter than 1.0 the video is longer
\* than the audio.
C23_ClipDurationFloor ==
  (op \in ProbeOps /\ raised = "none") =>
    /\ ClipDuration >= MinDurationDs
    /\ ProbeFailed => ClipDuration = DefaultDurationDs
    /\ ~ProbeFailed =>
         /\ ClipDuration = IF Measured < MinDurationDs THEN MinDurationDs ELSE Measured
         /\ Measured < MinDurationDs => ClipDuration > Measured

\* speech 0.4 long was read and a video 1.0 long was written
C23_Witness ==
  /\ VideoOps
  /\ raised = "none"
  /\ ~ProbeFailed
  /\ Measured > 0
  /\ Measured < MinDurationDs
  /\ ReturnedVideo.duration_ds = MinDurationDs

\* the stages that need the item's output directory
NeedsOutputDir == {"ElevenLabsTTS.run", "SimpleCardGenerator.run"}

\* C24: ElevenLabsTTS.run and SimpleCardGenerator.run, given an item with
\* no output directory, raise without having created a directory, written
\* a file or sent any request; inside run_pipeline, nothing is created or
\* requested after the analyzer's last step.
C24_NoOutputDirFailsFirst ==
  /\ (op \in NeedsOutputDir /\ arg.output_dir = None) =>
       /\ raised # "none"
       /\ ret = None
       /\ dirs = {}
       /\ DOMAIN fs = {}
       /\ log = <<>>
  /\ op = "run_pipeline" =>
       \A k \in 2..NInvoked :
         (Invoked(k).stage \in NeedsOutputDir /\ Invoked(k).arg.output_dir = None) =>
           /\ Invoked(k).raised # "none"
           /\ Invoked(k).ret = None
           /\ k = NInvoked
           /\ log[Len(log)] = "attach:context_analysis"
           /\ Cardinality(dirs) = 1
           /\ \A p \in DOMAIN fs : p \in {InputPath(p.dir), ResultPath(p.dir)}

\* the image stage was given an analysed item with no output directory and
\* raised
C24_Witness ==
  /\ op = "SimpleCardGenerator.run"
  /\ arg.output_dir = None
  /\ IsSome(arg.context_analysis)
  /\ raised = "AssertionError"
  /\ log = <<>>

====
